---------------------------- MODULE Spec2Model ----------------------------
(***************************************************************************)
(* Business-card entity extraction (docs/ocr-service.js, docs/app.js and   *)
(* the static web app).  Text is a TLA+ string; a character is a string of *)
(* length one; an offset is 0-based, as in JavaScript.                     *)
(***************************************************************************)
EXTENDS Integers, Sequences, FiniteSets, TLC

(***************************************************************************)
(* Bounds of the model.                                                    *)
(***************************************************************************)
\* raw lines (split pieces) of one text scanned by one extractEntities call
MaxLines == 4

(***************************************************************************)
(* Characters and character classes of the regular expressions.            *)
(***************************************************************************)
\* s.charAt(p), p 0-based
At(s, p) == SubSeq(s, p + 1, p + 1)

\* s.substring(from, to)
Substring(s, from, to) == SubSeq(s, from + 1, to)

Chars(s) == {SubSeq(s, i, i) : i \in 1..Len(s)}

UpperStr == "ABCDEFGHIJKLMNOPQRSTUVWXYZ"

LowerStr == "abcdefghijklmnopqrstuvwxyz"

Digit == Chars("0123456789")

Upper == Chars(UpperStr)

Lower == Chars(LowerStr)

Alpha == Upper \cup Lower

\* \w
Word == Alpha \cup Digit \cup {"_"}

\* \s (the ASCII white space a TLA+ string can hold)
Space == {" ", "\t", "\n", "\r", "\f"}

\* [\w\s]
WordOrSpace == Word \cup Space

\* [a-zA-Z0-9._%+-]
EmailLocal == Alpha \cup Digit \cup Chars("._%+-")

\* [a-zA-Z0-9.-]
DomainCh == Alpha \cup Digit \cup Chars(".-")

\* [-.\s]
Sep == Chars("-.") \cup Space

lowerOf == [c \in Upper |-> At(LowerStr, (CHOOSE i \in 0..25 : At(UpperStr, i) = c))]

\* c.toLowerCase() of one character
ToLowerCh(c) == IF c \in Upper THEN lowerOf[c] ELSE c

Max(S) == CHOOSE x \in S : \A y \in S : y <= x

Min(S) == CHOOSE x \in S : \A y \in S : x <= y

(***************************************************************************)
(* Pattern pieces.  Each takes the set S of offsets at which the piece may *)
(* start and gives the set of offsets at which it may end, over every way  *)
(* the regular-expression engine can match it (backtracking included).     *)
(***************************************************************************)
\* one character of class C
One(s, S, C) == {p + 1 : p \in {q \in S : q < Len(s) /\ At(s, q) \in C}}

\* C?
Opt(s, S, C) == S \cup One(s, S, C)

\* C{lo,hi}
Between(s, S, C, lo, hi) ==
    {e \in 0..Len(s) : \E p \in S : /\ e - p >= lo
                                    /\ e - p <= hi
                                    /\ \A k \in p..(e - 1) : At(s, k) \in C}

\* C+
Plus(s, S, C) == Between(s, S, C, 1, Len(s))

\* C*
Star(s, S, C) == Between(s, S, C, 0, Len(s))

\* C{k}
Times(s, S, C, k) == Between(s, S, C, k, k)

\* the literal w, case-sensitive
Lit(s, S, w) ==
    {p + Len(w) : p \in {q \in S : /\ q + Len(w) <= Len(s)
                                   /\ Substring(s, q, q + Len(w)) = w}}

\* the literal w under the i flag
LitI(s, S, w) ==
    {p + Len(w) : p \in {q \in S : /\ q + Len(w) <= Len(s)
                                   /\ \A k \in 0..(Len(w) - 1) :
                                        ToLowerCh(At(s, q + k)) = ToLowerCh(At(w, k))}}

\* \b at offset p
WordBoundary(s, p) ==
    LET before == p > 0 /\ At(s, p - 1) \in Word
        after  == p < Len(s) /\ At(s, p) \in Word
    IN  before # after

(***************************************************************************)
(* OCRService.extractEntities: the patterns (docs/ocr-service.js 110-116). *)
(* XxxEnds(s, p) is the set of offsets at which a match of the pattern     *)
(* that starts at offset p can end; XxxMatchAt(s, p) is the end of the     *)
(* match the engine reports for that start, or -1.                         *)
(***************************************************************************)
\* /^[a-zA-Z0-9._%+-]+@[a-zA-Z0-9.-]+\.[a-zA-Z]{2,}$/i
emailEnds(s) ==
    LET local  == Plus(s, {0}, EmailLocal)
        at     == One(s, local, {"@"})
        domain == Plus(s, at, DomainCh)
        dot    == One(s, domain, {"."})
    IN  Between(s, dot, Alpha, 2, Len(s))

\* a test that asks only for an @ somewhere in the line
looseEmailTest(s) == \E p \in 0..(Len(s) - 1) : At(s, p) = "@"

\* patterns.email.test(line): the pattern is anchored at both ends and has
\* no g flag, so the test keeps no position
emailTest(s) == Len(s) \in emailEnds(s)

\* /(?:\+?1[-.\s]?)?\(?([0-9]{3})\)?[-.\s]?([0-9]{3})[-.\s]?([0-9]{4})/g
phoneEnds(s, p) ==
    LET plus   == Opt(s, {p}, {"+"})
        one    == One(s, plus, {"1"})
        prefix == {p} \cup Opt(s, one, Sep)
        open   == Opt(s, prefix, {"("})
        area   == Times(s, open, Digit, 3)
        close  == Opt(s, area, {")"})
        sep1   == Opt(s, close, Sep)
        mid    == Times(s, sep1, Digit, 3)
        sep2   == Opt(s, mid, Sep)
    IN  Times(s, sep2, Digit, 4)

\* every quantifier of the pattern is greedy and nothing follows the last
\* group, so the reported match is the longest one from its start
phoneMatchAt(s, p) == IF phoneEnds(s, p) = {} THEN -1 ELSE Max(phoneEnds(s, p))

\* /(?:https?:\/\/)?(?:www\.)?[a-zA-Z0-9.-]+\.[a-zA-Z]{2,}(?:\/[^\s]*)?/g
websiteEnds(s, p) ==
    LET http   == Lit(s, {p}, "http")
        scheme == {p} \cup Lit(s, Opt(s, http, {"s"}), "://")
        www    == scheme \cup Lit(s, scheme, "www.")
        domain == Plus(s, www, DomainCh)
        dot    == One(s, domain, {"."})
        tld    == Between(s, dot, Alpha, 2, Len(s))
        slash  == One(s, tld, {"/"})
        path   == {e \in 0..Len(s) : \E q \in slash :
                      q <= e /\ \A k \in q..(e - 1) : At(s, k) \notin Space}
    IN  tld \cup path

websiteMatchAt(s, p) == IF websiteEnds(s, p) = {} THEN -1 ELSE Max(websiteEnds(s, p))

streetWords ==
    <<"Street", "St", "Avenue", "Ave", "Boulevard", "Blvd", "Lane", "Ln", "Road",
      "Rd", "Drive", "Dr", "Court", "Ct", "Way", "Place", "Pl">>

\* /\d+\s+[\w\s]+\s+(?:Street|St|...|Pl)\s*[\w\s]*/gi
addressEnds(s, p) ==
    LET number == Plus(s, {p}, Digit)
        gap    == Plus(s, number, Space)
        words  == Plus(s, gap, WordOrSpace)
        gap2   == Plus(s, words, Space)
        street == UNION {LitI(s, gap2, streetWords[i]) : i \in 1..Len(streetWords)}
        gap3   == Star(s, street, Space)
    IN  Star(s, gap3, WordOrSpace)

addressMatchAt(s, p) == IF addressEnds(s, p) = {} THEN -1 ELSE Max(addressEnds(s, p))

titleWords ==
    <<"CEO", "CTO", "CFO", "President", "Vice President", "Director", "Manager",
      "Engineer", "Developer", "Designer", "Consultant", "Analyst", "Coordinator",
      "Specialist", "Administrator", "Assistant", "Associate", "Partner", "Founder",
      "Owner", "Lead", "Senior", "Junior", "Principal">>

\* /\b(?:CEO|CTO|...|Principal)\b/gi: the alternatives that match at p
titleAlts(s, p) ==
    {i \in 1..Len(titleWords) :
        /\ WordBoundary(s, p)
        /\ LitI(s, {p}, titleWords[i]) # {}
        /\ WordBoundary(s, p + Len(titleWords[i]))}

\* the engine takes the first alternative, in the order written, that matches
titleMatchAt(s, p) ==
    IF titleAlts(s, p) = {} THEN -1 ELSE p + Len(titleWords[Min(titleAlts(s, p))])

\* the patterns that carry the g flag, and with it a lastIndex
GlobalPatterns == {"phone", "website", "address", "title"}

matchAtDirect(re, s, p) ==
    CASE re = "phone"   -> phoneMatchAt(s, p)
      [] re = "website" -> websiteMatchAt(s, p)
      [] re = "address" -> addressMatchAt(s, p)
      [] re = "title"   -> titleMatchAt(s, p)


(***************************************************************************)
(* The static web app's extractEntities: its patterns (all without flags;  *)
(* line.match(...) is used for its truth value only).                      *)
(***************************************************************************)
\* /^[a-zA-Z0-9._%+-]+@[a-zA-Z0-9.-]+\.[a-zA-Z]{2,}$/
staticEmail(s) ==
    LET local  == Plus(s, {0}, EmailLocal)
        at     == One(s, local, {"@"})
        domain == Plus(s, at, DomainCh)
        dot    == One(s, domain, {"."})
    IN  Len(s) \in Between(s, dot, Alpha, 2, Len(s))

\* /[\+]?[(]?[0-9]{1,3}[)]?[-\s\.]?[(]?[0-9]{1,4}[)]?[-\s\.]?[0-9]{1,4}[-\s\.]?[0-9]{1,9}/
staticPhoneEnds(s, p) ==
    LET plus  == Opt(s, {p}, {"+"})
        open  == Opt(s, plus, {"("})
        d1    == Between(s, open, Digit, 1, 3)
        close == Opt(s, d1, {")"})
        sep1  == Opt(s, close, Sep)
        open2 == Opt(s, sep1, {"("})
        d2    == Between(s, open2, Digit, 1, 4)
        cls2  == Opt(s, d2, {")"})
        sep2  == Opt(s, cls2, Sep)
        d3    == Between(s, sep2, Digit, 1, 4)
        sep3  == Opt(s, d3, Sep)
    IN  Between(s, sep3, Digit, 1, 9)

staticPhone(s) == \E p \in 0..Len(s) : staticPhoneEnds(s, p) # {}

\* /^www\.[a-zA-Z0-9.-]+\.[a-zA-Z]{2,}/
staticWebsite(s) ==
    LET www    == Lit(s, {0}, "www.")
        domain == Plus(s, www, DomainCh)
        dot    == One(s, domain, {"."})
    IN  Between(s, dot, Alpha, 2, Len(s)) # {}

staticStreetWords == <<"Street", "St", "Ave", "Avenue", "Blvd", "Boulevard">>

\* /\d+\s+\w+\s+(Street|St|Ave|Avenue|Blvd|Boulevard)/
staticStreet(s) ==
    \E p \in 0..Len(s) :
        LET number == Plus(s, {p}, Digit)
            gap    == Plus(s, number, Space)
            word   == Plus(s, gap, Word)
            gap2   == Plus(s, word, Space)
        IN  \E i \in 1..Len(staticStreetWords) : Lit(s, gap2, staticStreetWords[i]) # {}

\* /^[A-Z][a-z]+,\s+[A-Z]{2}\s+\d{5}$/
staticCityStateZip(s) ==
    LET cap   == One(s, {0}, Upper)
        rest  == Plus(s, cap, Lower)
        comma == One(s, rest, {","})
        gap   == Plus(s, comma, Space)
        state == Times(s, gap, Upper, 2)
        gap2  == Plus(s, state, Space)
    IN  Len(s) \in Times(s, gap2, Digit, 5)

\* line.includes(w)
Includes(s, w) == Lit(s, 0..Len(s), w) # {}


(***************************************************************************)
(* RegExp and String methods used by the extractor.                        *)
(***************************************************************************)
\* the input lines of the model
RawCorpus ==
    {"jane.doe@example.com", "bob@x.com", "Email: jd@ex.io",
     "Tel: +1 (555) 123-4567",
     "www.acme.com", "https://acme.io/about", "Web: https://www.acme.io/about now",
     "123 Tech Street, Silicon Valley, CA 94000", "Austin, TX 73301",
     "Marketing Director", "Director, Acme Corp",
     "Creative Agency", "Acme Technologies Inc.",
     "Jane Doe", "  John Q Public \t", "Dr  Jane  Doe",
     "Hello", "lorem ipsum dolor sit amet",
     "   "}

\* line.trim(), text.trim()
Trim(s) ==
    LET keep == {p \in 0..(Len(s) - 1) : At(s, p) \notin Space}
    IN  IF keep = {} THEN "" ELSE Substring(s, Min(keep), Max(keep) + 1)

\* text.split('\n'): the pieces between the newline characters, in order
Split(s) ==
    LET nl     == {p \in 0..(Len(s) - 1) : At(s, p) = "\n"}
        cut(k) == CHOOSE p \in nl : Cardinality({q \in nl : q < p}) = k - 1
        n      == Cardinality(nl)
    IN  [k \in 1..(n + 1) |->
            Substring(s, IF k = 1 THEN 0 ELSE cut(k - 1) + 1,
                         IF k = n + 1 THEN Len(s) ELSE cut(k))]

\* the texts extractEntities is called with in the model
OCRTexts ==
    {"", " \n\t \n", "123 Tech Street, Silicon Valley, CA 94000",
     "Jane Doe\nMarketing Director\nCreative Agency"}

\* the texts extractTextFromImage resolves with in the model
RecognizedTexts == {" \n\t \n", "123 Tech Street, Silicon Valley, CA 94000"}

splitTbl == [s \in OCRTexts |-> Split(s)]

Pieces(s) == IF s \in OCRTexts THEN splitTbl[s] ELSE Split(s)

AllPieces ==
    RawCorpus \cup UNION {{Pieces(s)[k] : k \in DOMAIN Pieces(s)} : s \in OCRTexts}

\* the pieces and the lines they are trimmed to
KnownLines == AllPieces \cup {Trim(r) : r \in AllPieces}

trimTbl == [r \in AllPieces |-> Trim(r)]

\* a map that leaves the pieces untrimmed
KeepRaw(raw) == raw

\* line.trim() of a piece of the text
TrimOf(raw) == trimTbl[raw]

\* the match of pattern re at each offset of each line, computed once
matchTbl ==
    [re \in GlobalPatterns |->
        [s \in KnownLines |-> [p \in 0..Len(s) |-> matchAtDirect(re, s, p)]]]

matchAt(re, s, p) == matchTbl[re][s][p]

\* RegExp.prototype.exec of a g pattern whose lastIndex is from: the
\* leftmost match starting at or after from; lastIndex becomes the end of
\* the match, or 0 when there is none
RegExpExec(re, s, from) ==
    LET starts == {p \in from..Len(s) : matchAt(re, s, p) # -1}
    IN  IF starts = {}
        THEN [index |-> -1, end |-> -1, lastIndex |-> 0]
        ELSE [index |-> Min(starts), end |-> matchAt(re, s, Min(starts)),
              lastIndex |-> matchAt(re, s, Min(starts))]

\* line.match(patterns.email): the pattern has no g flag; element [0] of a
\* match of the anchored pattern is the whole line
emailMatch(s) ==
    IF Len(s) \in emailEnds(s)
    THEN [isNull |-> FALSE, first |-> s]
    ELSE [isNull |-> TRUE, first |-> ""]

\* a replace that removes nothing
KeepScheme(s) == s

\* a replace that puts "www." where the scheme was
SchemeToWww(s) ==
    LET scheme == Lit(s, Opt(s, Lit(s, {0}, "http"), {"s"}), "://")
    IN  IF scheme = {} THEN s ELSE "www." \o Substring(s, Max(scheme), Len(s))

\* websiteMatch[0].replace(/^https?:\/\//, '')
StripScheme(s) ==
    LET scheme == Lit(s, Opt(s, Lit(s, {0}, "http"), {"s"}), "://")
    IN  IF scheme = {} THEN s ELSE Substring(s, Max(scheme), Len(s))

\* the number of characters instead of the number of pieces
CharLength(s) == Len(s)

\* line.split(' ').length: the pieces between single space characters
SplitLength(s) == Cardinality({p \in 0..(Len(s) - 1) : At(s, p) = " "}) + 1

companyIndicators ==
    <<"Inc", "Corp", "LLC", "Ltd", "Co", "Company", "Corporation",
      "Incorporated", "Limited", "LLC", "LP", "PLC", "Group", "Holdings",
      "Enterprises", "Solutions", "Technologies", "Systems", "Services",
      "Consulting", "Agency", "Studio", "Labs", "Ventures", "Partners">>

\* a test that compares the characters as they are
CaseSensitiveCompany(s) ==
    \E i \in 1..Len(companyIndicators) : Lit(s, 0..Len(s), companyIndicators[i]) # {}

\* OCRService.looksLikeCompany
looksLikeCompany(text) ==
    \E i \in 1..Len(companyIndicators) :
        LitI(text, 0..Len(text), companyIndicators[i]) # {}

staticTitleWords == <<"Engineer", "Manager", "Director", "CEO", "Developer", "Designer">>

staticCompanyWords == <<"Inc", "Corp", "LLC", "Company", "Agency">>

\* what the callbacks ask of a line, computed once for each line
LineFacts(s) ==
    [line          |-> s,
     emailTest     |-> emailTest(s),
     emailMatch    |-> emailMatch(s),
     exec          |-> [re \in GlobalPatterns |->
                           [p \in 0..Len(s) |-> RegExpExec(re, s, p)]],
     company       |-> looksLikeCompany(s),
     pieces        |-> SplitLength(s),
     length        |-> Len(s),
     staticEmail   |-> staticEmail(s),
     staticPhone   |-> staticPhone(s),
     staticWebsite |-> staticWebsite(s),
     staticTitle   |-> \E i \in 1..Len(staticTitleWords) : Includes(s, staticTitleWords[i]),
     staticCompany |-> \E i \in 1..Len(staticCompanyWords) : Includes(s, staticCompanyWords[i]),
     staticAddress |-> staticStreet(s) \/ staticCityStateZip(s)]

factTbl == [s \in KnownLines |-> LineFacts(s)]

Facts(s) == factTbl[s]

(***************************************************************************)
(* The record and the per-line callbacks of the two extractEntities.  The  *)
(* callbacks get the line as its facts f, the line itself being f.line.    *)
(***************************************************************************)
Fields == {"Name", "Title", "Company", "Email", "Phone", "Address", "Website"}

\* const entities = { Name: '', Title: '', ... }
EmptyEntities == [f \in Fields |-> ""]

\* patterns that are made once and shared by every call
SharedPatterns(old) == old

\* const patterns = { ... }: the regular-expression literals are evaluated
\* at every call, which makes new objects, each with lastIndex 0
CreatePatterns(old) == [re \in GlobalPatterns |-> 0]

\* patterns[re].exec(line) with the pattern's lastIndex at from
ExecAt(f, re, from) ==
    IF from > f.length
    THEN [index |-> -1, end |-> -1, lastIndex |-> 0]
    ELSE f.exec[re][from]

\* a guard that does not look at the field
AlwaysEmpty(ents, field) == TRUE

\* `!entities[field] && patterns[re].test(line)`: the test runs, and moves
\* the pattern's lastIndex, only when the field is still empty
FieldEmpty(ents, field) == ents[field] = ""

\* a test that runs whether or not the field is empty
UnguardedTest(ents, field, re, f, li) ==
    [fired |-> ExecAt(f, re, li[re]).index # -1,
     lastIndex |-> [li EXCEPT ![re] = ExecAt(f, re, li[re]).lastIndex]]

GuardTest(ents, field, re, f, li) ==
    IF ~FieldEmpty(ents, field)
    THEN [fired |-> FALSE, lastIndex |-> li]
    ELSE [fired |-> ExecAt(f, re, li[re]).index # -1,
          lastIndex |-> [li EXCEPT ![re] = ExecAt(f, re, li[re]).lastIndex]]

\* line.match(patterns[re]) of a g pattern: every match from offset 0, or
\* null; the pattern's lastIndex is 0 afterwards.  first is element [0].
StringMatch(re, f) ==
    IF ExecAt(f, re, 0).index = -1
    THEN [isNull |-> TRUE, first |-> ""]
    ELSE [isNull |-> FALSE,
          first |-> Substring(f.line, ExecAt(f, re, 0).index, ExecAt(f, re, 0).end)]

\* what one run of the callback leaves: the record, the patterns' lastIndex,
\* the field it assigned ("" for none) and whether it threw
Outcome(ents, li, field, threw) ==
    [entities |-> ents, lastIndex |-> li, wrote |-> field, threw |-> threw]

\* OCRService.extractEntities, the callback of lines.forEach((line, index) => ...)
scanLine(f, ents, li, i) ==
    IF FieldEmpty(ents, "Email") /\ f.emailTest
    THEN \* entities.Email = line.match(patterns.email)[0]
         IF f.emailMatch.isNull
         THEN Outcome(ents, li, "", TRUE)
         ELSE Outcome([ents EXCEPT !["Email"] = f.emailMatch.first], li, "Email", FALSE)
    ELSE
    LET phone == GuardTest(ents, "Phone", "phone", f, li) IN
    IF phone.fired
    THEN LET phoneMatch == StringMatch("phone", f)
             after == [phone.lastIndex EXCEPT !["phone"] = 0]
         IN  IF phoneMatch.isNull
             THEN Outcome(ents, after, "", FALSE)
             ELSE Outcome([ents EXCEPT !["Phone"] = phoneMatch.first],
                          after, "Phone", FALSE)
    ELSE
    LET website == GuardTest(ents, "Website", "website", f, phone.lastIndex) IN
    IF website.fired
    THEN LET websiteMatch == StringMatch("website", f)
             after == [website.lastIndex EXCEPT !["website"] = 0]
         IN  IF websiteMatch.isNull
             THEN Outcome(ents, after, "", FALSE)
             ELSE Outcome([ents EXCEPT !["Website"] = StripScheme(websiteMatch.first)],
                          after, "Website", FALSE)
    ELSE
    LET address == GuardTest(ents, "Address", "address", f, website.lastIndex) IN
    IF address.fired
    THEN Outcome([ents EXCEPT !["Address"] = f.line], address.lastIndex, "Address", FALSE)
    ELSE
    LET title == GuardTest(ents, "Title", "title", f, address.lastIndex) IN
    IF title.fired
    THEN Outcome([ents EXCEPT !["Title"] = f.line], title.lastIndex, "Title", FALSE)
    ELSE
    IF FieldEmpty(ents, "Company") /\ f.company
    THEN Outcome([ents EXCEPT !["Company"] = f.line], title.lastIndex, "Company", FALSE)
    ELSE
    IF /\ FieldEmpty(ents, "Name")
       /\ i < 3
       /\ f.pieces >= 2
       /\ f.pieces <= 4
       /\ ~f.emailTest
    THEN Outcome([ents EXCEPT !["Name"] = f.line], title.lastIndex, "Name", FALSE)
    ELSE Outcome(ents, title.lastIndex, "", FALSE)

\* the static app's BusinessCardApp.extractEntities, the callback of
\* lines.forEach(line => ...): its patterns keep no position
staticScanLine(f, ents, li, i) ==
    IF FieldEmpty(ents, "Email") /\ f.staticEmail
    THEN Outcome([ents EXCEPT !["Email"] = f.line], li, "Email", FALSE)
    ELSE
    IF FieldEmpty(ents, "Phone") /\ f.staticPhone
    THEN Outcome([ents EXCEPT !["Phone"] = f.line], li, "Phone", FALSE)
    ELSE
    IF FieldEmpty(ents, "Website") /\ f.staticWebsite
    THEN Outcome([ents EXCEPT !["Website"] = f.line], li, "Website", FALSE)
    ELSE
    IF FieldEmpty(ents, "Name") /\ f.pieces >= 2 /\ f.length < 30
    THEN Outcome([ents EXCEPT !["Name"] = f.line], li, "Name", FALSE)
    ELSE
    IF FieldEmpty(ents, "Title") /\ f.staticTitle
    THEN Outcome([ents EXCEPT !["Title"] = f.line], li, "Title", FALSE)
    ELSE
    IF FieldEmpty(ents, "Company") /\ f.staticCompany
    THEN Outcome([ents EXCEPT !["Company"] = f.line], li, "Company", FALSE)
    ELSE
    IF FieldEmpty(ents, "Address") /\ f.staticAddress
    THEN Outcome([ents EXCEPT !["Address"] = f.line], li, "Address", FALSE)
    ELSE Outcome(ents, li, "", FALSE)

\* the two implementations of extractEntities found in the source
Impls == {"ocr", "static"}

Callback(which, f, ents, li, i) ==
    IF which = "ocr" THEN scanLine(f, ents, li, i) ELSE staticScanLine(f, ents, li, i)


(***************************************************************************)
(* State.                                                                  *)
(***************************************************************************)
(***************************************************************************)
(* The records of extractedData and their text forms: JSON in              *)
(* localStorage, CSV in the download.                                      *)
(***************************************************************************)
\* a record of extractedData: the seven fields, _source_file and _raw_text
Card(fields, file, raw) ==
    [fields |-> fields, _source_file |-> file, _raw_text |-> raw]

\* the properties of a record in the order they were created
KeyOrder ==
    <<"Name", "Title", "Company", "Email", "Phone", "Address", "Website",
      "_source_file", "_raw_text">>

\* card[key]
Prop(card, key) ==
    IF key \in Fields THEN card.fields[key]
    ELSE IF key = "_source_file" THEN card._source_file
    ELSE card._raw_text

\* the strings of a sequence one after the other
RECURSIVE ConcatTo(_, _)
ConcatTo(strs, k) == IF k = 0 THEN "" ELSE ConcatTo(strs, k - 1) \o strs[k]

Concat(strs) == ConcatTo(strs, Len(strs))

\* array.join(sep)
Join(strs, sep) ==
    Concat([k \in 1..Len(strs) |-> IF k = 1 THEN strs[k] ELSE sep \o strs[k]])

\* a JSON string holds a quote, a backslash and a control character as an
\* escape sequence
EscapeCh(c) ==
    CASE c = "\"" -> "\\\""
      [] c = "\\" -> "\\\\"
      [] c = "\n" -> "\\n"
      [] c = "\t" -> "\\t"
      [] c = "\r" -> "\\r"
      [] c = "\f" -> "\\f"
      [] OTHER    -> c

\* JSON.stringify of a string
Quote(s) ==
    "\"" \o Concat([k \in 1..Len(s) |-> EscapeCh(At(s, k - 1))]) \o "\""

\* the fields and the values the user types into the inputs of a card
EditFields == {"Name"}

EditValues == {"Ann \"AJ, Jr\" Lee\\"}

\* the strings of the model that Quote is computed for once
quoteTbl == [s \in KnownLines \cup OCRTexts \cup EditValues |-> Quote(s)]

QuoteOf(s) == IF s \in DOMAIN quoteTbl THEN quoteTbl[s] ELSE Quote(s)

\* JSON.stringify of a record
ObjectText(card) ==
    "{" \o Join([k \in 1..Len(KeyOrder) |->
                    Quote(KeyOrder[k]) \o ":" \o QuoteOf(Prop(card, KeyOrder[k]))], ",")
        \o "}"

\* JSON.stringify(this.extractedData)
Stringify(data) ==
    "[" \o Join([k \in 1..Len(data) |-> ObjectText(data[k])], ",") \o "]"

\* the number of backslashes right before offset p
Backslashes(str, p) ==
    CHOOSE k \in 0..p : k = p \/ At(str, p - 1 - k) # "\\"

\* the character an escape sequence stands for
UnescapeCh(c) ==
    CASE c = "n" -> "\n"
      [] c = "t" -> "\t"
      [] c = "r" -> "\r"
      [] c = "f" -> "\f"
      [] OTHER   -> c

\* a parse that keeps a string literal as it is written
KeepEscapes(b) == b

\* the string a JSON string literal with body b stands for
Unquote(b) ==
    Concat([k \in 1..Len(b) |->
               IF Backslashes(b, k - 1) % 2 = 1 THEN UnescapeCh(At(b, k - 1))
               ELSE IF At(b, k - 1) = "\\" THEN ""
               ELSE At(b, k - 1)])

\* the string literals the model meets, as they are written in a JSON
\* text, each with the string it stands for
unquoteTbl ==
    [b \in {Substring(Quote(s), 1, Len(Quote(s)) - 1) :
                s \in KnownLines \cup OCRTexts \cup EditValues
                         \cup {KeyOrder[k] : k \in DOMAIN KeyOrder}} |-> Unquote(b)]

UnquoteOf(b) == IF b \in DOMAIN unquoteTbl THEN unquoteTbl[b] ELSE Unquote(b)

\* the offsets of the quotes of a JSON text that are not escaped: they
\* open and close its string literals
UnescapedQuotes(str) ==
    {q \in 0..(Len(str) - 1) : At(str, q) = "\"" /\ Backslashes(str, q) % 2 = 0}

\* the first of the offsets quotes at or after p, and Len(str) when there is
\* none
NextQuote(str, quotes, p) ==
    CHOOSE q \in p..Len(str) :
        /\ q = Len(str) \/ q \in quotes
        /\ \A r \in p..(q - 1) : r \notin quotes

\* the string literals of a JSON text from offset p on, each with what it
\* stands for and whether a brace opens an object right before it
RECURSIVE Literals(_, _, _)
Literals(str, quotes, p) ==
    LET open  == NextQuote(str, quotes, p)
        close == NextQuote(str, quotes, open + 1)
    IN  IF open = Len(str) THEN <<>>
        ELSE <<[begins |-> Includes(Substring(str, p, open), "{"),
                body   |-> UnquoteOf(Substring(str, open + 1, close))]>>
                 \o Literals(str, quotes, close + 1)

\* JSON.parse of the text of an array of objects whose properties are
\* strings: inside an object the literals are key, value, key, value, ...
Parse(str) ==
    LET lits   == Literals(str, UnescapedQuotes(str), 0)
        starts == {k \in 1..Len(lits) : lits[k].begins}
        object(k) ==
            LET pairs == (Min({j \in starts \cup {Len(lits) + 1} : j > k}) - k) \div 2
                value(key) ==
                    lits[k + 2 * (CHOOSE i \in 1..pairs : lits[k + 2 * i - 2].body = key) - 1].body
            IN  [fields       |-> [f \in Fields |-> value(f)],
                 _source_file |-> value("_source_file"),
                 _raw_text    |-> value("_raw_text")]
        place(j) == CHOOSE k \in starts : Cardinality({i \in starts : i < k}) = j - 1
    IN  [j \in 1..Cardinality(starts) |-> object(place(j))]

\* the columns of the download
headers == <<"Name", "Title", "Company", "Email", "Phone", "Address", "Website">>

\* downloadExcel: csvContent
CsvContent(data) ==
    Join(<<Join(headers, ",")>> \o
         [k \in 1..Len(data) |->
             Join([h \in 1..Len(headers) |->
                      "\"" \o data[k].fields[headers[h]] \o "\""], ",")],
         "\n")

VARIABLES
    impl,       \* which extractEntities is running: "ocr" or "static"
    pc,         \* "idle", "scan" (inside lines.forEach), "done", "threw"
    nread,      \* pieces of text.split('\n') consumed so far
    index,      \* forEach index: the non-empty trimmed lines visited so far
    line,       \* the line the callback last ran on
    entities,   \* the record being filled
    lastIndex,  \* lastIndex of each g pattern of the call's patterns object
    wrote,      \* the field the last callback assigned, "" for none
    writes,     \* per field, the number of assignments made by this call
    given,      \* the pieces consumed so far, while they begin one of OCRTexts
    extractedText,   \* the argument of the extractEntities call, when given whole
    caller,     \* the extractInformation run that made the call, 0 for none
    remembered, \* one earlier call: its text and the record it returned
    ocrSpaceApiKey,  \* OCRService.ocrSpaceApiKey, "" for null
    extractedData,   \* BusinessCardApp.extractedData
    localStorage,    \* the entries 'businessCardData' and 'ocr_api_key'
    runs,       \* the pending extractInformation calls: where each waits, file i of n;
                \* "ocrspace" and "tesseract" are the two awaits of extractTextFromImage
    fileInput,  \* fileInput.files.length
    filePreview,     \* the number of files listed in #filePreview
    resultsContainer,     \* the number of cards rendered in #resultsContainer
    notification,    \* the messages the last handler step showed, in order
    download,   \* the content of the file the last handler step downloaded, "" for none
    batch,      \* the results of OCR in a run, kept while no other handler touches extractedData
    page        \* whether the page is open, and whether it was closed with no run pending

scanVars == <<impl, pc, nread, index, line, entities, lastIndex, wrote, writes, given>>

\* the variables of the page that extractEntities has no access to
pageVars == <<runs, fileInput, filePreview, resultsContainer, notification, download,
              batch, page>>

appVars == <<extractedText, caller, remembered, ocrSpaceApiKey, extractedData, localStorage,
             runs, fileInput, filePreview, resultsContainer, notification, download,
             batch, page>>

vars == <<impl, pc, nread, index, line, entities, lastIndex, wrote, writes, given,
          extractedText, caller, remembered, ocrSpaceApiKey, extractedData, localStorage,
          runs, fileInput, filePreview, resultsContainer, notification, download,
          batch, page>>

\* the files a batch may hold in the model, and the keys the user may type
MaxFiles == 2

\* the calls of extractInformation that may be pending at one time
MaxRuns == 2

Slots == 1..MaxRuns

ApiKeys == {"K1"}

\* what the prompt of setAPIKey returns in the model, "" for null and for ''
Answers == {"", "K1", "K2"}

\* const maxFiles = 10
maxFiles == 10

\* the files of the largest selection in the model
MaxSelect == 11

\* file.name of the i-th selected file
FileName(i) ==
    <<"card1.png", "card2.png", "card3.png", "card4.png", "card5.png", "card6.png",
      "card7.png", "card8.png", "card9.png", "card10.png", "card11.png", "card12.png">>[i]

NoCall == [called |-> FALSE, text |-> "", entities |-> EmptyEntities]

NoRun == [at |-> "none", i |-> 0, n |-> 0]

NoBatch == [alone |-> FALSE, n |-> 0, seen |-> <<>>]

\* localStorage without the entry 'businessCardData'
NoItem == [present |-> FALSE, value |-> ""]

\* text.split('\n') of a call that has consumed no piece yet
NoPieces == [tracked |-> TRUE, pieces |-> <<>>]

IsPrefix(p, q) == Len(p) <= Len(q) /\ \A k \in 1..Len(p) : p[k] = q[k]

\* the pieces consumed, once raw is consumed too
Consumed(g, raw) ==
    IF g.tracked /\ \E s \in OCRTexts : IsPrefix(Append(g.pieces, raw), Pieces(s))
    THEN [tracked |-> TRUE, pieces |-> Append(g.pieces, raw)]
    ELSE [tracked |-> FALSE, pieces |-> <<>>]

\* new OCRService() and new BusinessCardApp() in a browser that stored nothing
Init ==
    /\ impl = "ocr"
    /\ pc = "idle"
    /\ nread = 0
    /\ index = 0
    /\ line = ""
    /\ entities = EmptyEntities
    /\ lastIndex = [re \in GlobalPatterns |-> 0]
    /\ wrote = ""
    /\ writes = [f \in Fields |-> 0]
    /\ given = NoPieces
    /\ extractedText = ""
    /\ caller = 0
    /\ remembered = NoCall
    /\ ocrSpaceApiKey = ""
    /\ extractedData = <<>>
    /\ localStorage = [businessCardData |-> NoItem, ocr_api_key |-> ""]
    /\ runs = [r \in Slots |-> NoRun]
    /\ fileInput = 0
    /\ filePreview = 0
    /\ resultsContainer = 0
    /\ notification = <<>>
    /\ download = ""
    /\ batch = NoBatch
    /\ page = [open |-> TRUE, quiet |-> TRUE]

(***************************************************************************)
(* extractEntities, one forEach step at a time.                            *)
(***************************************************************************)
\* extractEntities is entered: entities and patterns are created
Enter(i) ==
    /\ impl' = i
    /\ pc' = "scan"
    /\ nread' = 0
    /\ index' = 0
    /\ line' = ""
    /\ entities' = EmptyEntities
    /\ lastIndex' = CreatePatterns(lastIndex)
    /\ wrote' = ""
    /\ writes' = [f \in Fields |-> 0]
    /\ given' = NoPieces

\* the forEach callback has run on a line and left out
Visited(ln, out) ==
    /\ line' = ln
    /\ index' = index + 1
    /\ entities' = out.entities
    /\ lastIndex' = out.lastIndex
    /\ wrote' = out.wrote
    /\ writes' = [f \in Fields |-> IF f = out.wrote THEN writes[f] + 1 ELSE writes[f]]
    /\ pc' = IF out.threw THEN "threw" ELSE "scan"

\* the next piece of the text: map(line => line.trim()), filter(line => line)
\* and, for a piece that is kept, the forEach callback
Visit(raw) ==
    /\ nread' = nread + 1
    /\ impl' = impl
    /\ given' = Consumed(given, raw)
    /\ IF TrimOf(raw) = ""
       THEN UNCHANGED <<pc, index, line, entities, lastIndex, wrote, writes>>
       ELSE Visited(TrimOf(raw),
                    Callback(impl, Facts(TrimOf(raw)), entities, lastIndex, index))

(***************************************************************************)
(* Spec: one call of either extractEntities on a text that is handed over  *)
(* one split('\n') piece at a time.                                        *)
(***************************************************************************)
StartExtract(i) ==
    /\ pc = "idle"
    /\ Enter(i)
    /\ UNCHANGED appVars

NextLine(raw) ==
    /\ pc = "scan"
    /\ nread < MaxLines
    /\ Visit(raw)
    /\ UNCHANGED appVars

\* the text has no more pieces: return entities
Return ==
    /\ pc = "scan"
    /\ pc' = "done"
    /\ UNCHANGED <<impl, nread, index, line, entities, lastIndex, wrote, writes, given>>
    /\ UNCHANGED appVars

Next ==
    \/ \E i \in Impls : StartExtract(i)
    \/ \E raw \in RawCorpus : NextLine(raw)
    \/ Return

Spec == Init /\ [][Next]_vars

(***************************************************************************)
(* The handlers of the page of docs/app.js with its OCRService.  A call of *)
(* extractEntities runs to its end before any other handler runs; a call   *)
(* of extractInformation gives way at each await.                          *)
(***************************************************************************)
\* `!extractedText.trim()`
IsBlank(s) == Trim(s) = ""

\* no call of extractInformation is pending
Quiescent == \A r \in Slots : runs[r].at = "none"

\* the page is open and not inside a stretch of code that does not give way
Ready == page.open /\ pc # "scan" /\ \A r \in Slots : runs[r].at # "entities"

\* extractTextFromImage is pending in call r
Awaiting(r) == runs[r].at \in {"ocrspace", "tesseract"}

\* an extractTextFromImage that tries OCR.space whatever the key is
RemoteFirst == "ocrspace"

\* extractTextFromImage up to its first await: `if (this.ocrSpaceApiKey)`
\* decides whether it waits for extractWithOCRSpace or for extractWithTesseract
extractTextFromImage == IF ocrSpaceApiKey # "" THEN "ocrspace" ELSE "tesseract"

\* error.message of what extractTextFromImage throws, and of what a throw
\* inside extractEntities would be
OcrError == "Failed to extract text from image"

TypeError == "TypeError"

NoTextNotice(i) == "No text detected in: " \o FileName(i)

ErrorNotice(i, message) == "Error processing " \o FileName(i) \o ": " \o message

MaxFilesNotice ==
    "Maximum " \o ToString(maxFiles) \o " files allowed. Only first "
        \o ToString(maxFiles) \o " will be processed."

\* the outcome of OCR on one file, as the run that asked for it sees it
Recognized(s) == [failed |-> FALSE, text |-> s]

Failed == [failed |-> TRUE, text |-> ""]

Seen(outcome) ==
    IF batch.alone THEN [batch EXCEPT !.seen = Append(@, outcome)] ELSE batch

\* ocrService.extractEntities(text) called on its own
extractEntities(s) ==
    /\ Ready
    /\ Enter("ocr")
    /\ extractedText' = s
    /\ caller' = 0
    /\ notification' = <<>>
    /\ download' = ""
    /\ UNCHANGED <<remembered, ocrSpaceApiKey, extractedData, localStorage>>
    /\ UNCHANGED <<runs, fileInput, filePreview, batch>>
    /\ UNCHANGED <<resultsContainer, page>>

\* lines.forEach: the next piece of the text of the call
forEachLine ==
    /\ pc = "scan"
    /\ nread < Len(Pieces(extractedText))
    /\ Visit(Pieces(extractedText)[nread + 1])
    /\ UNCHANGED appVars

\* return entities, to a caller that may keep the text and the record
returnEntities(keep) ==
    /\ pc = "scan"
    /\ nread = Len(Pieces(extractedText))
    /\ caller = 0
    /\ pc' = "done"
    /\ remembered' = IF keep /\ ~remembered.called
                     THEN [called |-> TRUE, text |-> extractedText, entities |-> entities]
                     ELSE remembered
    /\ UNCHANGED <<impl, nread, index, line, entities, lastIndex, wrote, writes, given>>
    /\ UNCHANGED <<extractedText, caller, ocrSpaceApiKey, extractedData, localStorage>>
    /\ UNCHANGED pageVars

\* a setAPIKey that keeps the key in memory only
KeyNotStored(apiKey) ==
    /\ Ready
    /\ ocrSpaceApiKey' = IF apiKey # "" THEN apiKey ELSE ocrSpaceApiKey
    /\ notification' = IF apiKey # "" THEN <<"API key saved successfully!">> ELSE <<>>
    /\ download' = ""
    /\ UNCHANGED scanVars
    /\ UNCHANGED <<extractedText, caller, remembered, extractedData, localStorage>>
    /\ UNCHANGED <<runs, fileInput, filePreview, batch>>
    /\ UNCHANGED <<resultsContainer, page>>

\* BusinessCardApp.setAPIKey; apiKey is the answer to the prompt, "" when
\* the prompt was cancelled or left empty
setAPIKey(apiKey) ==
    /\ Ready
    /\ IF apiKey # ""
       THEN /\ ocrSpaceApiKey' = apiKey
            /\ localStorage' = [localStorage EXCEPT !.ocr_api_key = apiKey]
            /\ notification' = <<"API key saved successfully!">>
       ELSE /\ UNCHANGED <<ocrSpaceApiKey, localStorage>>
            /\ notification' = <<>>
    /\ download' = ""
    /\ UNCHANGED scanVars
    /\ UNCHANGED <<extractedText, caller, remembered, extractedData>>
    /\ UNCHANGED <<runs, fileInput, filePreview, batch>>
    /\ UNCHANGED <<resultsContainer, page>>

\* the change event of #fileInput, and a drop on the upload area, with n
\* files: fileInput.files holds them all, the list shows at most maxFiles
handleFileSelect(n) ==
    /\ Ready
    /\ fileInput' = n
    /\ filePreview' = Min({n, maxFiles})
    /\ notification' = IF n > maxFiles THEN <<MaxFilesNotice>> ELSE <<>>
    /\ download' = ""
    /\ UNCHANGED scanVars
    /\ UNCHANGED <<extractedText, caller, remembered, ocrSpaceApiKey, extractedData,
                   localStorage, runs, batch>>
    /\ UNCHANGED <<resultsContainer, page>>

\* extractInformation, up to its first await; r is a call that is not pending
extractInformation(r) ==
    /\ Ready
    /\ runs[r].at = "none"
    /\ IF fileInput = 0
       THEN /\ notification' = <<"Please select files first">>
            /\ UNCHANGED <<extractedData, runs, batch>>
       ELSE /\ extractedData' = <<>>
            /\ runs' = [runs EXCEPT ![r] = [at |-> extractTextFromImage, i |-> 1, n |-> fileInput]]
            /\ notification' = <<>>
            /\ batch' = IF Quiescent
                        THEN [alone |-> TRUE, n |-> fileInput, seen |-> <<>>]
                        ELSE NoBatch
    /\ download' = ""
    /\ UNCHANGED scanVars
    /\ UNCHANGED <<extractedText, caller, remembered, ocrSpaceApiKey, localStorage,
                   fileInput, filePreview>>
    /\ UNCHANGED <<resultsContainer, page>>

\* after the loop: displayResults(), the last notification and storeData()
Finish(r, data, shown) ==
    /\ localStorage' = [localStorage EXCEPT
                            !.businessCardData =
                                [present |-> TRUE, value |-> Stringify(data)]]
    /\ runs' = [runs EXCEPT ![r] = NoRun]
    /\ resultsContainer' = Len(data)
    /\ notification' = Append(shown, "Processing complete!")

\* the loop goes on to the next file, or ends
Advance(r, data, shown) ==
    IF runs[r].i < runs[r].n
    THEN /\ runs' = [runs EXCEPT ![r].at = extractTextFromImage, ![r].i = runs[r].i + 1]
         /\ notification' = shown
         /\ UNCHANGED <<localStorage, resultsContainer>>
    ELSE Finish(r, data, shown)

\* extractWithOCRSpace resolves with '': `if (result)` fails and the call
\* goes on to extractWithTesseract
ocrSpaceEmpty(r) ==
    /\ Ready
    /\ runs[r].at = "ocrspace"
    /\ runs' = [runs EXCEPT ![r].at = "tesseract"]
    /\ notification' = <<>>
    /\ download' = ""
    /\ UNCHANGED scanVars
    /\ UNCHANGED <<extractedText, caller, remembered, ocrSpaceApiKey, extractedData,
                   localStorage, fileInput, filePreview, batch>>
    /\ UNCHANGED <<resultsContainer, page>>

\* extractTextFromImage resolves with a blank text, which OCR.space gives
\* only when it is not '': the record is made here
ocrBlank(r, s) ==
    /\ Ready
    /\ Awaiting(r)
    /\ runs[r].at = "ocrspace" => s # ""
    /\ IsBlank(s)
    /\ extractedData' = Append(extractedData, Card(EmptyEntities, FileName(runs[r].i), ""))
    /\ runs' = [runs EXCEPT ![r].at = "delay"]
    /\ notification' = <<NoTextNotice(runs[r].i)>>
    /\ download' = ""
    /\ batch' = Seen(Recognized(s))
    /\ UNCHANGED scanVars
    /\ UNCHANGED <<extractedText, caller, remembered, ocrSpaceApiKey, localStorage,
                   fileInput, filePreview>>
    /\ UNCHANGED <<resultsContainer, page>>

\* extractTextFromImage resolves with a text: extractEntities is entered
ocrText(r, s) ==
    /\ Ready
    /\ Awaiting(r)
    /\ ~IsBlank(s)
    /\ Enter("ocr")
    /\ extractedText' = s
    /\ caller' = r
    /\ runs' = [runs EXCEPT ![r].at = "entities"]
    /\ notification' = <<>>
    /\ download' = ""
    /\ batch' = Seen(Recognized(s))
    /\ UNCHANGED <<remembered, ocrSpaceApiKey, extractedData, localStorage,
                   fileInput, filePreview>>
    /\ UNCHANGED <<resultsContainer, page>>

\* extractEntities is left inside the try block: its record is pushed, or
\* what it threw is caught and an empty record is pushed
leaveEntities(r) ==
    /\ runs[r].at = "entities"
    /\ caller = r
    /\ \/ pc = "scan" /\ nread = Len(Pieces(extractedText))
       \/ pc = "threw"
    /\ IF pc = "scan"
       THEN /\ pc' = "done"
            /\ extractedData' =
                   Append(extractedData, Card(entities, FileName(runs[r].i), extractedText))
            /\ runs' = [runs EXCEPT ![r].at = "delay"]
            /\ UNCHANGED <<localStorage, resultsContainer, notification>>
       ELSE /\ pc' = "done"
            /\ extractedData' =
                   Append(extractedData,
                          Card(EmptyEntities, FileName(runs[r].i), "Error: " \o TypeError))
            /\ Advance(r, extractedData', <<ErrorNotice(runs[r].i, TypeError)>>)
    /\ UNCHANGED <<impl, nread, index, line, entities, lastIndex, wrote, writes, given>>
    /\ UNCHANGED <<extractedText, caller, remembered, ocrSpaceApiKey>>
    /\ UNCHANGED <<fileInput, filePreview, download, batch>>
    /\ UNCHANGED page

\* a catch block that gives the batch up
AbortOnFailure(r) ==
    /\ Ready
    /\ Awaiting(r)
    /\ runs' = [runs EXCEPT ![r] = NoRun]
    /\ notification' = <<ErrorNotice(runs[r].i, OcrError)>>
    /\ download' = ""
    /\ batch' = Seen(Failed)
    /\ UNCHANGED scanVars
    /\ UNCHANGED <<extractedText, caller, remembered, ocrSpaceApiKey, extractedData,
                   localStorage, fileInput, filePreview, resultsContainer, page>>

\* extractTextFromImage rejects, after extractWithOCRSpace or
\* extractWithTesseract threw: the catch block pushes an empty record
ocrFails(r) ==
    /\ Ready
    /\ Awaiting(r)
    /\ extractedData' =
           Append(extractedData,
                  Card(EmptyEntities, FileName(runs[r].i), "Error: " \o OcrError))
    /\ Advance(r, extractedData', <<ErrorNotice(runs[r].i, OcrError)>>)
    /\ download' = ""
    /\ batch' = Seen(Failed)
    /\ UNCHANGED scanVars
    /\ UNCHANGED <<extractedText, caller, remembered, ocrSpaceApiKey, fileInput, filePreview>>
    /\ UNCHANGED page

\* await this.delay(100) is over
delayDone(r) ==
    /\ Ready
    /\ runs[r].at = "delay"
    /\ Advance(r, extractedData, <<>>)
    /\ download' = ""
    /\ UNCHANGED scanVars
    /\ UNCHANGED <<extractedText, caller, remembered, ocrSpaceApiKey, extractedData,
                   fileInput, filePreview, batch>>
    /\ UNCHANGED page

\* an updateField that does not call storeData
UpdateWithoutStore(cardIndex, field, value) ==
    /\ Ready
    /\ cardIndex < resultsContainer
    /\ IF cardIndex + 1 \in DOMAIN extractedData
       THEN extractedData' = [extractedData EXCEPT ![cardIndex + 1].fields[field] = value]
       ELSE UNCHANGED extractedData
    /\ notification' = <<>>
    /\ download' = ""
    /\ batch' = NoBatch
    /\ UNCHANGED scanVars
    /\ UNCHANGED <<extractedText, caller, remembered, ocrSpaceApiKey, localStorage,
                   runs, fileInput, filePreview>>
    /\ UNCHANGED <<resultsContainer, page>>

\* updateField(cardIndex, field, value), the onchange handler of an input
\* of card cardIndex of #resultsContainer; without a record at cardIndex
\* the assignment throws and nothing is stored
updateField(cardIndex, field, value) ==
    /\ Ready
    /\ cardIndex < resultsContainer
    /\ IF cardIndex + 1 \in DOMAIN extractedData
       THEN /\ extractedData' = [extractedData EXCEPT ![cardIndex + 1].fields[field] = value]
            /\ localStorage' = [localStorage EXCEPT
                                    !.businessCardData =
                                        [present |-> TRUE, value |-> Stringify(extractedData')]]
       ELSE UNCHANGED <<extractedData, localStorage>>
    /\ notification' = <<>>
    /\ download' = ""
    /\ batch' = NoBatch
    /\ UNCHANGED scanVars
    /\ UNCHANGED <<extractedText, caller, remembered, ocrSpaceApiKey, runs, fileInput, filePreview>>
    /\ UNCHANGED <<resultsContainer, page>>

\* clearAll
clearAll ==
    /\ Ready
    /\ extractedData' = <<>>
    /\ fileInput' = 0
    /\ filePreview' = 0
    /\ resultsContainer' = 0
    /\ localStorage' = [localStorage EXCEPT !.businessCardData = NoItem]
    /\ notification' = <<"All data cleared">>
    /\ download' = ""
    /\ batch' = NoBatch
    /\ UNCHANGED scanVars
    /\ UNCHANGED <<extractedText, caller, remembered, ocrSpaceApiKey, runs>>
    /\ UNCHANGED page

\* downloadExcel
downloadExcel ==
    /\ Ready
    /\ download' = CsvContent(extractedData)
    /\ notification' = <<"Excel file downloaded!">>
    /\ UNCHANGED scanVars
    /\ UNCHANGED <<extractedText, caller, remembered, ocrSpaceApiKey, extractedData,
                   localStorage, runs, fileInput, filePreview, batch>>
    /\ UNCHANGED <<resultsContainer, page>>

\* loadStoredData: this.extractedData after it
loadStoredData(item) == IF item.present /\ item.value # "" THEN Parse(item.value) ELSE <<>>

\* the page is closed: what was pending is gone with the objects of the
\* page; extractedData stays in the model as what the page held last
closePage ==
    /\ Ready
    /\ page' = [open |-> FALSE, quiet |-> Quiescent]
    /\ impl' = "ocr"
    /\ pc' = "idle"
    /\ nread' = 0
    /\ index' = 0
    /\ line' = ""
    /\ entities' = EmptyEntities
    /\ lastIndex' = [re \in GlobalPatterns |-> 0]
    /\ wrote' = ""
    /\ writes' = [f \in Fields |-> 0]
    /\ given' = NoPieces
    /\ extractedText' = ""
    /\ caller' = 0
    /\ remembered' = NoCall
    /\ ocrSpaceApiKey' = ""
    /\ runs' = [r \in Slots |-> NoRun]
    /\ fileInput' = 0
    /\ filePreview' = 0
    /\ resultsContainer' = 0
    /\ notification' = <<>>
    /\ download' = ""
    /\ batch' = NoBatch
    /\ UNCHANGED <<extractedData, localStorage>>

\* the page is opened again: new BusinessCardApp(), new OCRService() and
\* init() with its loadStoredData()
openPage ==
    /\ ~page.open
    /\ page' = [open |-> TRUE, quiet |-> TRUE]
    /\ ocrSpaceApiKey' = localStorage.ocr_api_key
    /\ extractedData' = loadStoredData(localStorage.businessCardData)
    /\ resultsContainer' = Len(extractedData')
    /\ UNCHANGED scanVars
    /\ UNCHANGED <<extractedText, caller, remembered, localStorage>>
    /\ UNCHANGED <<runs, fileInput, filePreview, notification, download, batch>>

(***************************************************************************)
(* SpecApp: calls of extractEntities from outside and from one             *)
(* extractInformation at a time.                                           *)
(***************************************************************************)
NextApp ==
    \/ \E s \in OCRTexts : extractEntities(s)
    \/ forEachLine
    \/ \E keep \in BOOLEAN : returnEntities(keep)
    \/ \E apiKey \in ApiKeys : setAPIKey(apiKey)
    \/ handleFileSelect(MaxFiles)
    \/ extractInformation(1)
    \/ ocrSpaceEmpty(1)
    \/ \E s \in RecognizedTexts : ocrBlank(1, s)
    \/ \E s \in RecognizedTexts : ocrText(1, s)
    \/ leaveEntities(1)
    \/ ocrFails(1)
    \/ delayDone(1)

SpecApp == Init /\ [][NextApp]_vars

(***************************************************************************)
(* SpecPage: calls of extractInformation that overlap, on images in which  *)
(* OCR finds no text or on which it fails.                                 *)
(***************************************************************************)
NextPage ==
    \/ \E n \in 1..MaxFiles : handleFileSelect(n)
    \/ \E r \in Slots : extractInformation(r)
    \/ \E r \in Slots, s \in RecognizedTexts : ocrBlank(r, s)
    \/ \E r \in Slots : ocrFails(r)
    \/ \E r \in Slots : delayDone(r)
    \/ clearAll

SpecPage == Init /\ [][NextPage]_vars

(***************************************************************************)
(* SpecBatch: one call of extractInformation at a time, on selections of   *)
(* up to MaxSelect images in which OCR finds no text.                      *)
(***************************************************************************)
NextBatch ==
    \/ \E n \in 1..MaxSelect : handleFileSelect(n)
    \/ extractInformation(1)
    \/ \E s \in RecognizedTexts : ocrBlank(1, s)
    \/ delayDone(1)

SpecBatch == Init /\ [][NextBatch]_vars

(***************************************************************************)
(* SpecSession: the page is used, closed and opened again.                 *)
(***************************************************************************)
NextSession ==
    \/ \E n \in 1..MaxFiles : handleFileSelect(n)
    \/ extractInformation(1)
    \/ \E s \in RecognizedTexts : ocrText(1, s)
    \/ forEachLine
    \/ leaveEntities(1)
    \/ delayDone(1)
    \/ \E cardIndex \in 0..(MaxFiles - 1), field \in EditFields, value \in EditValues :
           updateField(cardIndex, field, value)
    \/ clearAll
    \/ downloadExcel
    \/ closePage
    \/ openPage

SpecSession == Init /\ [][NextSession]_vars

(***************************************************************************)
(* SpecKey: the API key is set and changed, in sessions in which images    *)
(* go to OCR.space and to Tesseract, which find no text in them.           *)
(***************************************************************************)
NextKey ==
    \/ \E apiKey \in Answers : setAPIKey(apiKey)
    \/ handleFileSelect(MaxFiles)
    \/ extractInformation(1)
    \/ ocrSpaceEmpty(1)
    \/ \E s \in RecognizedTexts : ocrBlank(1, s)
    \/ delayDone(1)
    \/ \E cardIndex \in 0..(MaxFiles - 1), field \in EditFields, value \in EditValues :
           updateField(cardIndex, field, value)
    \/ clearAll
    \/ downloadExcel
    \/ closePage
    \/ openPage

SpecKey == Init /\ [][NextKey]_vars

(***************************************************************************)
(* Properties.                                                             *)
(***************************************************************************)
\* the rules in the order the specification gives them
RuleOrder == <<"Email", "Phone", "Website", "Address", "Title", "Company", "Name">>

\* the pattern of a rule matches the line with facts f at position i,
\* whatever the record holds
RuleMatches(field, f, i) ==
    CASE field = "Email"   -> f.emailTest
      [] field = "Phone"   -> f.exec["phone"][0].index # -1
      [] field = "Website" -> f.exec["website"][0].index # -1
      [] field = "Address" -> f.exec["address"][0].index # -1
      [] field = "Title"   -> f.exec["title"][0].index # -1
      [] field = "Company" -> f.company
      [] field = "Name"    -> i < 3 /\ f.pieces >= 2 /\ f.pieces <= 4 /\ ~f.emailTest

\* the rules whose pattern matches, and those whose field is empty as well
Matching(f, i) == {k \in 1..7 : RuleMatches(RuleOrder[k], f, i)}

Eligible(ents, f, i) == {k \in Matching(f, i) : ents[RuleOrder[k]] = ""}

\* a step in which the forEach callback runs on a line
VisitStep == pc = "scan" /\ index' = index + 1

\* the whitespace-separated tokens of a line
Tokens(s) ==
    Cardinality({p \in 0..(Len(s) - 1) :
                    At(s, p) \notin Space /\ (p = 0 \/ At(s, p - 1) \in Space)})

\* the line holds an email address and other text around it
EmailInside(s) ==
    /\ ~emailTest(s)
    /\ \E p \in 0..(Len(s) - 1) :
          LET local  == Plus(s, {p}, EmailLocal)
              at     == One(s, local, {"@"})
              domain == Plus(s, at, DomainCh)
              dot    == One(s, domain, {"."})
          IN  Between(s, dot, Alpha, 2, Len(s)) # {}

AddressLine == "123 Tech Street, Silicon Valley, CA 94000"

\* C1: OCRService.extractEntities visits the non-empty trimmed lines in
\* order; each line is assigned to the first rule, in the order Email, Phone,
\* Website, Address, Title, Company, Name, whose field is empty and whose
\* pattern matches, and to no other field; no such rule, no assignment
C1_FirstEligibleRuleWins ==
    [][ (VisitStep /\ impl = "ocr") =>
            /\ line' # ""
            /\ Trim(line') = line'
            /\ IF Eligible(entities, Facts(line'), index) = {}
               THEN wrote' = "" /\ entities' = entities
               ELSE /\ wrote' = RuleOrder[Min(Eligible(entities, Facts(line'), index))]
                    /\ entities'[wrote'] # ""
                    /\ \A g \in Fields \ {wrote'} : entities'[g] = entities[g] ]_vars

\* a line with a Title keyword and a Company keyword went to Title alone
C1_Witness ==
    /\ impl = "ocr"
    /\ line = "Director, Acme Corp"
    /\ Facts(line).company
    /\ wrote = "Title"
    /\ entities["Title"] = line
    /\ entities["Company"] = ""

\* C2: in one call of either extractEntities every field is written at
\* most once, and a field that holds a value keeps it at every later line
C2_WrittenAtMostOnce ==
    [][ pc = "scan" =>
            \A g \in Fields :
                /\ writes'[g] <= 1
                /\ entities[g] # "" => entities'[g] = entities[g] ]_vars

\* a second line matching the Email pattern was visited after Email was set
C2_Witness ==
    /\ pc = "done"
    /\ writes["Email"] = 1
    /\ line # entities["Email"]
    /\ Facts(line).emailTest

\* C3: in OCRService.extractEntities a line whose first matching rule
\* targets a field that is already filled changes none of the seven fields
C3_FilledTargetDropsLine ==
    [][ (VisitStep /\ impl = "ocr") =>
            LET m == Matching(Facts(line'), index)
            IN  (m # {} /\ entities[RuleOrder[Min(m)]] # "") => entities' = entities ]_vars

\* C5: extractEntities never throws, and its record always has exactly the
\* seven fields, each a string
C5_TotalSevenStrings ==
    /\ pc # "threw"
    /\ DOMAIN entities = Fields
    /\ \A g \in Fields : entities[g] \in STRING

\* a call that took the Email and the Phone branch has returned
C5_Witness ==
    /\ pc = "done"
    /\ impl = "ocr"
    /\ entities["Email"] # ""
    /\ entities["Phone"] # ""

\* C7: in OCRService.extractEntities a line that holds an email address
\* among other text, visited while Email is empty, populates Email
C7_EmailSubstringTaken ==
    [][ (VisitStep /\ impl = "ocr" /\ entities["Email"] = "" /\ EmailInside(line')) =>
            wrote' = "Email" /\ entities'["Email"] # "" ]_vars

\* C8: in OCRService.extractEntities a "City, ST ZIP" line that reaches the
\* Address rule while Address is empty is stored whole in Address
C8_CityStateZipIsAddress ==
    [][ (/\ VisitStep
         /\ impl = "ocr"
         /\ entities["Address"] = ""
         /\ staticCityStateZip(line')
         /\ wrote' \notin {"Email", "Phone", "Website"}) =>
            entities'["Address"] = line' ]_vars

\* C9: OCRService.extractEntities assigns a line to Name exactly when Name
\* is empty, no earlier rule took the line, the line is among the first three
\* and has 2 to 4 whitespace-separated tokens and is not an email
C9_NameExactlyWhen ==
    [][ (VisitStep /\ impl = "ocr") =>
            (wrote' = "Name" <=>
                /\ entities["Name"] = ""
                /\ Eligible(entities, Facts(line'), index) \ {7} = {}
                /\ index < 3
                /\ Tokens(line') >= 2
                /\ Tokens(line') <= 4
                /\ ~emailTest(line')) ]_vars

\* C10: for the one-line text AddressLine both implementations return
\* Address equal to the line
C10_AddressExample ==
    (pc = "done" /\ nread = 1 /\ index = 1 /\ line = AddressLine) =>
        entities["Address"] = AddressLine

\* C4: two calls of extractEntities with the same text return equal records
\* whatever was extracted in between, and the steps of a call leave the API
\* key, extractedData and the stored data as they are
C4_PureFunctionOfText ==
    [][ /\ (pc' = "done" /\ remembered'.called /\ remembered'.text = extractedText') =>
               entities' = remembered'.entities
        /\ (pc' = "scan" \/ (pc = "scan" /\ caller = 0)) =>
               UNCHANGED <<ocrSpaceApiKey, extractedData, localStorage>> ]_vars

\* a call made by extractInformation returned for the text of a remembered
\* earlier call, each call leaving its address pattern at a non-zero position
C4_Witness ==
    /\ pc = "done"
    /\ caller = 1
    /\ remembered.called
    /\ remembered.text = extractedText
    /\ entities["Address"] = AddressLine
    /\ lastIndex["address"] > 0

\* C6: extractEntities returns seven empty fields for a blank text, and the
\* record extractInformation stores for a blank text has the same fields
C6_BlankTextAllEmpty ==
    /\ (pc = "done" /\ IsBlank(extractedText)) => entities = EmptyEntities
    /\ \A k \in DOMAIN extractedData :
          extractedData[k]._raw_text = "" =>
              /\ extractedData[k].fields = EmptyEntities
              /\ (remembered.called /\ IsBlank(remembered.text)) =>
                     extractedData[k].fields = remembered.entities

\* a whitespace-only text went through extractEntities, line by line, and
\* the short-cut stored a record as well
C6_Witness ==
    /\ remembered.called
    /\ remembered.text = " \n\t \n"
    /\ \E k \in DOMAIN extractedData : extractedData[k]._raw_text = ""

ThreeLines == "Jane Doe\nMarketing Director\nCreative Agency"

\* C11: for the three lines Jane Doe, Marketing Director, Creative Agency
\* both implementations return Name, Title and Company equal to the first,
\* second and third line, and Email, Phone, Address and Website empty
C11_ThreeLineExample ==
    (pc = "done" /\ given.tracked /\ given.pieces = Pieces(ThreeLines)) =>
        entities = [EmptyEntities EXCEPT !["Name"] = "Jane Doe",
                                         !["Title"] = "Marketing Director",
                                         !["Company"] = "Creative Agency"]

\* the static app's extractEntities has returned for the three lines
C11_Witness ==
    /\ pc = "done"
    /\ impl = "static"
    /\ given.tracked
    /\ given.pieces = <<"Jane Doe", "Marketing Director", "Creative Agency">>
    /\ entities["Company"] = "Creative Agency"

\* OCRService.extractEntities has returned for the three lines
OcrThreeLinesDone ==
    /\ pc = "done"
    /\ impl = "ocr"
    /\ given.tracked
    /\ given.pieces = <<"Jane Doe", "Marketing Director", "Creative Agency">>

\* the line holds a word of the company vocabulary, letter case aside
CompanyWordInside(s) ==
    \E i \in 1..Len(companyIndicators) :
        \E p \in 0..(Len(s) - Len(companyIndicators[i])) :
            \A k \in 0..(Len(companyIndicators[i]) - 1) :
                ToLowerCh(At(s, p + k)) = ToLowerCh(At(companyIndicators[i], k))

companyWordLines == {s \in KnownLines : CompanyWordInside(s)}

\* C12: in OCRService.extractEntities a line that holds a company word and
\* is taken by none of the Email, Phone, Website, Address and Title rules is
\* stored whole in Company when Company is empty, and Title and Name keep
\* what they held
C12_CompanyLineStoredWhole ==
    [][ (/\ VisitStep
         /\ impl = "ocr"
         /\ line' \in companyWordLines
         /\ wrote' \notin {"Email", "Phone", "Website", "Address", "Title"}
         /\ entities["Company"] = "") =>
            /\ wrote' = "Company"
            /\ entities'["Company"] = line'
            /\ entities'["Title"] = entities["Title"]
            /\ entities'["Name"] = entities["Name"] ]_vars

\* the line Acme Technologies Inc. went to Company and Title stayed empty
C12_Witness ==
    /\ impl = "ocr"
    /\ line = "Acme Technologies Inc."
    /\ wrote = "Company"
    /\ entities["Company"] = "Acme Technologies Inc."
    /\ entities["Title"] = ""
    /\ entities["Name"] = ""

StartsWith(s, w) == Lit(s, {0}, w) # {}

\* the leftmost, longest substring of s that matches the website pattern
FirstWebsiteMatch(s) ==
    LET starts == {p \in 0..Len(s) : websiteEnds(s, p) # {}}
    IN  IF starts = {} THEN ""
        ELSE Substring(s, Min(starts), Max(websiteEnds(s, Min(starts))))

WithoutScheme(m) ==
    IF StartsWith(m, "http://") THEN Substring(m, 7, Len(m))
    ELSE IF StartsWith(m, "https://") THEN Substring(m, 8, Len(m))
    ELSE m

\* the website a line should give, for each line of the model
expectedWebsite == [s \in KnownLines |-> WithoutScheme(FirstWebsiteMatch(s))]

\* C13: when OCRService.extractEntities assigns a line to Website, the value
\* is the first match of the website pattern in the line without a leading
\* http:// or https://, a leading www. is kept, and the value is non-empty
\* and begins with neither http:// nor https://
C13_WebsiteWithoutScheme ==
    [][ (VisitStep /\ impl = "ocr" /\ wrote' = "Website") =>
            /\ entities'["Website"] = expectedWebsite[line']
            /\ StartsWith(expectedWebsite[line'], "www.") =>
                   StartsWith(entities'["Website"], "www.")
            /\ entities'["Website"] # ""
            /\ ~StartsWith(entities'["Website"], "http://")
            /\ ~StartsWith(entities'["Website"], "https://") ]_vars

\* a match inside the line, with a scheme and www., was stored without the
\* scheme
C13_Witness ==
    /\ impl = "ocr"
    /\ line = "Web: https://www.acme.io/about now"
    /\ wrote = "Website"
    /\ entities["Website"] = "www.acme.io/about"

\* what _raw_text holds for a file, by the outcome of OCR on it
RawTextFor(o) ==
    IF o.failed THEN "Error: Failed to extract text from image"
    ELSE IF IsBlank(o.text) THEN ""
    ELSE o.text

\* the records data are those of a batch b that ran from its first file to
\* its last
BatchRecords(data, b) ==
    /\ Len(b.seen) = b.n
    /\ Len(data) = b.n
    /\ \A i \in 1..b.n :
          /\ data[i]._source_file = FileName(i)
          /\ data[i]._raw_text = RawTextFor(b.seen[i])
          /\ b.seen[i].failed => data[i].fields = EmptyEntities

\* a step in which OCR fails on the next file of a run
FailureStep ==
    /\ batch.alone
    /\ Len(batch'.seen) = Len(batch.seen) + 1
    /\ batch'.seen[Len(batch'.seen)].failed

\* C14: a run of extractInformation over N >= 1 files that no handler
\* touching extractedData interleaves with ends with exactly N records in
\* file order, record i carrying the name of file i and as raw text the
\* recognized text, '' when that text is blank, and the error message when
\* OCR failed; a failure is shown to the user in a notice naming the file,
\* gives a record with seven empty fields and does not stop the batch
C14_BatchOneRecordPerFile ==
    [][ /\ (Quiescent' /\ batch'.alone) => BatchRecords(extractedData', batch')
        /\ FailureStep =>
              /\ \E k \in DOMAIN notification' :
                    notification'[k] =
                        "Error processing " \o FileName(Len(batch'.seen))
                            \o ": Failed to extract text from image"
              /\ Len(extractedData') = Len(extractedData) + 1
              /\ extractedData'[Len(extractedData')].fields = EmptyEntities ]_vars

\* C14 as stated: the raw text of every record of such a run is the text
\* OCR recognized in the file
C14_RawTextIsRecognizedText ==
    (Quiescent /\ batch.alone) =>
        \A i \in DOMAIN extractedData \cap DOMAIN batch.seen :
            ~batch.seen[i].failed => extractedData[i]._raw_text = batch.seen[i].text

\* a run of two files has ended: OCR failed on the first file and found a
\* text in the second
C14_Witness ==
    /\ Quiescent
    /\ batch.alone
    /\ batch.n = 2
    /\ batch.seen[1].failed
    /\ ~batch.seen[2].failed
    /\ ~IsBlank(batch.seen[2].text)
    /\ Len(extractedData) = 2
    /\ extractedData[2]._raw_text = batch.seen[2].text

\* C15: whenever no call of extractInformation is pending, extractedData
\* holds no two records of the same file
C15_OneRecordPerFile ==
    Quiescent =>
        \A i, j \in DOMAIN extractedData :
            i # j => extractedData[i]._source_file # extractedData[j]._source_file

\* the value typed into an input by the user in the model
TypedValue == "Ann \"AJ, Jr\" Lee\\"

\* what updateField(cardIndex, field, value) leaves behind when there is a
\* record at cardIndex
OneFieldRewritten(cardIndex, field, value) ==
    /\ Len(extractedData') = Len(extractedData)
    /\ extractedData'[cardIndex + 1].fields[field] = value
    /\ \A f \in Fields \ {field} :
          extractedData'[cardIndex + 1].fields[f] = extractedData[cardIndex + 1].fields[f]
    /\ extractedData'[cardIndex + 1]._source_file = extractedData[cardIndex + 1]._source_file
    /\ extractedData'[cardIndex + 1]._raw_text = extractedData[cardIndex + 1]._raw_text
    /\ \A k \in DOMAIN extractedData : k # cardIndex + 1 => extractedData'[k] = extractedData[k]
    /\ ocrSpaceApiKey' = ocrSpaceApiKey
    /\ localStorage'.ocr_api_key = localStorage.ocr_api_key
    /\ localStorage'.businessCardData.present
    /\ Parse(localStorage'.businessCardData.value) = extractedData'

\* C16: updateField(cardIndex, field, value) on a record that exists sets
\* that field of that record to value and changes no other field, no
\* metadata, no other record, neither the number nor the order of records nor
\* the API key, and the copy in localStorage, read back, is the new
\* extractedData
C16_UpdateFieldRewritesOneField ==
    [][ \A cardIndex \in 0..(MaxFiles - 1), field \in EditFields, value \in EditValues :
            (updateField(cardIndex, field, value) /\ cardIndex + 1 \in DOMAIN extractedData) =>
                OneFieldRewritten(cardIndex, field, value) ]_vars

\* the Name of the second of two records has been edited and stored, the
\* first record and the other fields being those extractEntities gave
C16_Witness ==
    /\ page.open
    /\ Len(extractedData) = 2
    /\ extractedData[2].fields["Name"] = TypedValue
    /\ extractedData[2].fields["Address"] # ""
    /\ extractedData[1].fields["Name"] = ""
    /\ extractedData[1].fields["Address"] # ""
    /\ localStorage.businessCardData.present
    /\ localStorage.businessCardData.value = Stringify(extractedData)

\* C17: while the page is open, a step that is not clearAll removes no
\* record of extractedData and changes the seven fields of a record only
\* when it is an updateField step
C17_RecordsKeptUntilClearAll ==
    [][ (page.open /\ page'.open /\ ~clearAll) =>
            \A k \in DOMAIN extractedData :
                /\ k \in DOMAIN extractedData'
                /\ extractedData'[k]._source_file = extractedData[k]._source_file
                /\ \/ extractedData'[k].fields = extractedData[k].fields
                   \/ \E cardIndex \in 0..(MaxFiles - 1), field \in EditFields,
                         value \in EditValues : updateField(cardIndex, field, value) ]_vars

\* C18: when the page is opened again after it was closed with no call of
\* extractInformation pending, extractedData of the new session equals
\* extractedData of the session before: the same records in the same order,
\* with their seven fields, manual edits included, _source_file and
\* _raw_text; clearAll leaves no stored records, and a session opened with
\* no stored records starts with none
C18_ResultsPersistAcrossSessions ==
    [][ /\ (~page.open /\ page'.open) =>
               /\ page.quiet => extractedData' = extractedData
               /\ ~localStorage.businessCardData.present => extractedData' = <<>>
        /\ clearAll => ~localStorage'.businessCardData.present ]_vars

\* a new session (no call of extractEntities made yet) holds two records
\* loaded from localStorage, the second with an edited Name
C18_Witness ==
    /\ page.open
    /\ pc = "idle"
    /\ Quiescent
    /\ Len(extractedData) = 2
    /\ extractedData[2].fields["Name"] = TypedValue
    /\ extractedData[1]._source_file = "card1.png"
    /\ extractedData[2]._raw_text = "123 Tech Street, Silicon Valley, CA 94000"


\* the quotes of a row before offset p
QuotesBefore(row, p) == Cardinality({q \in 0..(p - 1) : At(row, q) = "\""})

\* the columns a reader of CSV finds in a row: a comma between quotes is
\* part of a value, any other comma ends a column
Columns(row) ==
    1 + Cardinality({p \in 0..(Len(row) - 1) :
                        At(row, p) = "," /\ QuotesBefore(row, p) % 2 = 0})

\* C19: every row of the file downloadExcel writes, the header and one row
\* per record, has seven columns for a reader of CSV, whatever commas the
\* values hold
C19_SevenColumnsPerRow ==
    download # "" =>
        LET rows == Split(download)
        IN  /\ Len(rows) = 1 + Len(extractedData)
            /\ \A k \in DOMAIN rows : Columns(rows[k]) = 7

\* C20: extractedData never holds more than maxFiles records
C20_AtMostMaxFilesRecords == Len(extractedData) <= maxFiles

\* a step in which call r of extractInformation calls extractTextFromImage:
\* it starts to wait for OCR of its first or of its next file
CallsExtractText(r) ==
    /\ runs'[r].at \in {"ocrspace", "tesseract"}
    /\ ~Awaiting(r) \/ runs'[r].i # runs[r].i

\* C21: a call of extractTextFromImage sends the image to OCR.space only
\* if an API key is configured, which is the key stored under 'ocr_api_key'
\* that init loads; with no key configured the call waits for Tesseract,
\* and a call that waits for Tesseract never turns to OCR.space
C21_RemoteOnlyWithKey ==
    [][ \A r \in Slots :
          /\ (CallsExtractText(r) /\ runs'[r].at = "ocrspace") =>
                 /\ ocrSpaceApiKey # ""
                 /\ ocrSpaceApiKey = localStorage.ocr_api_key
          /\ (CallsExtractText(r) /\ ocrSpaceApiKey = "") => runs'[r].at = "tesseract"
          /\ (runs[r].at = "tesseract" /\ runs'[r].at = "ocrspace") => CallsExtractText(r)
      ]_vars

\* with no key set or stored, the second file of a run is with Tesseract
C21_Witness ==
    /\ page.open
    /\ ocrSpaceApiKey = ""
    /\ localStorage.ocr_api_key = ""
    /\ runs[1].at = "tesseract"
    /\ runs[1].i = 2
    /\ Len(extractedData) = 1

\* C22: extractTextFromImage rejects, and the file fails with 'Failed to
\* extract text from image', only when Tesseract was tried and failed: a
\* step in which the call rejects is a step of a call that waits for
\* Tesseract
C22_FailsOnlyWhenTesseractFails ==
    [][ \A r \in Slots : ocrFails(r) => runs[r].at = "tesseract" ]_vars

\* clearAll was the last handler to run: its notice is the one on show
JustCleared == notification = <<"All data cleared">>

\* C23: after clearAll, as long as no extraction is started, extractedData
\* stays empty and 'businessCardData' stays absent: a step that follows
\* clearAll and is not the start of an extraction leaves them so
C23_EmptyAfterClearAll ==
    [][ (JustCleared /\ ~\E r \in Slots : extractInformation(r)) =>
            /\ extractedData' = <<>>
            /\ ~localStorage'.businessCardData.present ]_vars

\* C24: whenever updateField(i, field, value) is triggered from an input of
\* a card that #resultsContainer shows, extractedData holds a record at i
C24_EditedRecordExists ==
    [][ \A cardIndex \in 0..(MaxFiles - 1), field \in EditFields, value \in EditValues :
          updateField(cardIndex, field, value) => cardIndex + 1 \in DOMAIN extractedData ]_vars

\* a step of setAPIKey, whatever the prompt returned
SetsKey == \E apiKey \in Answers : setAPIKey(apiKey)

\* C25: the configured key is the last non-empty key given to setAPIKey:
\* setAPIKey with a non-empty answer makes it the key in memory and under
\* 'ocr_api_key', with an empty answer it changes neither; no other step
\* changes the stored key, nor the key in memory of an open page; and the
\* key in memory of an open page, after a reload too, is the stored key
C25_KeyIsLastKeySet ==
    [][ /\ \A apiKey \in Answers :
              setAPIKey(apiKey) =>
                  IF apiKey # ""
                  THEN /\ ocrSpaceApiKey' = apiKey
                       /\ localStorage'.ocr_api_key = apiKey
                  ELSE /\ ocrSpaceApiKey' = ocrSpaceApiKey
                       /\ localStorage'.ocr_api_key = localStorage.ocr_api_key
        /\ ~SetsKey =>
              /\ localStorage'.ocr_api_key = localStorage.ocr_api_key
              /\ (page.open /\ page'.open) => ocrSpaceApiKey' = ocrSpaceApiKey
        /\ page'.open => ocrSpaceApiKey' = localStorage'.ocr_api_key ]_vars

\* "K2" is the key in memory and the stored key of an open page that
\* shows two cards and no notice, with no selection and no call pending
C25_Witness ==
    /\ page.open
    /\ Quiescent
    /\ ocrSpaceApiKey = "K2"
    /\ localStorage.ocr_api_key = "K2"
    /\ notification = <<>>
    /\ fileInput = 0
    /\ Len(extractedData) = 2
    /\ resultsContainer = 2

\* the fields of a record that hold a value
NonEmptyFields(ents) == {g \in Fields : ents[g] # ""}

\* C26: at every step of the scan of OCRService.extractEntities the line
\* visited is a trimmed non-empty line, at most one field changes, the
\* field that changes was empty and gets a contiguous substring of that
\* line, and the fields that hold a value are no more than the lines
\* visited so far
C26_NoFabricatedText ==
    [][ (VisitStep /\ impl = "ocr") =>
            /\ line' # ""
            /\ Trim(line') = line'
            /\ \A g \in Fields :
                  entities'[g] # entities[g] =>
                      /\ g = wrote'
                      /\ entities[g] = ""
                      /\ Includes(line', entities'[g])
            /\ Cardinality(NonEmptyFields(entities')) <= index' ]_vars

\* three lines were visited: one gave the Phone field a part of itself,
\* one gave another field, one gave none
C26_Witness ==
    /\ impl = "ocr"
    /\ index = 3
    /\ Cardinality(NonEmptyFields(entities)) = 2
    /\ wrote = "Phone"
    /\ entities["Phone"] # line
    /\ Includes(line, entities["Phone"])

=============================================================================
